---- MODULE Spec2Model ----
(***************************************************************************)
(* Model of the registration/login front end: the token store             *)
(* (contexts/AuthContext.tsx), the registration flow                     *)
(* (components/Registration.tsx) and the application shell (App.tsx).     *)
(*                                                                         *)
(* A JavaScript string is a sequence of one-character strings, so that    *)
(* split, replace, padEnd and atob are computed character by character.   *)
(* A value of type `string | null` is Null (the empty tuple) or Str(s)    *)
(* (the one-element tuple holding the string s).                          *)
(***************************************************************************)
EXTENDS Integers, Sequences, FiniteSets, Bags, TLC

VARIABLES
    now,            \* Date.now(), in milliseconds
    localStorage,   \* the "authToken" entry of localStorage: Null or Str(s)
    token,          \* AuthProvider's state `token`: Null or Str(s)
    sessionStorage, \* the "postAuthSuccessMessage" entry: Null or Str(m)
    registrationType,  \* Registration's state: Null or Str(role)
    registrationData,  \* Registration's state: [username, password, confirmPassword]
    regSnackBar,    \* Registration's snackbar: [show, message, severity]
    appSnackBar,    \* App's snackbar: [show, message, severity]
    protectedResponse, \* App's state `protectedResponse`, a message
    submissions,    \* the submitHandler calls suspended at an await (a bag)
    protectedCalls, \* the callProtectedEndpoint calls suspended at an await (a bag)
    last            \* the call of the store (initializer, setToken, logout) the
                    \* last step made, with the store it started from

vars == <<now, localStorage, token, sessionStorage, registrationType,
          registrationData, regSnackBar, appSnackBar, protectedResponse,
          submissions, protectedCalls, last>>

(***************************************************************************)
(* Bounds of the model.                                                    *)
(***************************************************************************)
\* The clock stops advancing at MaxNow milliseconds.
MaxNow == 1000
\* Submissions suspended at an await at the same time, in FormSpec.
MaxSubmissions == 2
\* Submissions suspended at an await at the same time, in SubmitSpec and Spec.
MaxSubmitting == 1
\* Protected-endpoint calls suspended at an await at the same time.
MaxProtectedCalls == 1
\* Submissions racing each other in RaceSpec.
MaxRacing == 2

(***************************************************************************)
(* string | null                                                           *)
(***************************************************************************)
Null == <<>>
Str(s) == <<s>>
\* JavaScript truthiness of a `string | null`: null and "" are falsy.
Truthy(v) == v # Null /\ v[1] # <<>>

(***************************************************************************)
(* String operations used by getTokenExpiryTime                            *)
(***************************************************************************)
\* String.prototype.split("."): the segments between the dots; "" has one
\* (empty) segment.
RECURSIVE SplitFrom(_, _, _)
SplitFrom(s, i, cur) ==
    IF i > Len(s) THEN <<cur>>
    ELSE IF s[i] = "." THEN <<cur>> \o SplitFrom(s, i + 1, <<>>)
    ELSE SplitFrom(s, i + 1, Append(cur, s[i]))

Split(s) == SplitFrom(s, 1, <<>>)

\* .replace(/-/g, "+").replace(/_/g, "/")
ReplaceUrlChars(s) ==
    [i \in 1..Len(s) |-> IF s[i] = "-" THEN "+" ELSE IF s[i] = "_" THEN "/" ELSE s[i]]

\* .padEnd(Math.ceil(length / 4) * 4, "=")
PadEnd(s) ==
    LET target == ((Len(s) + 3) \div 4) * 4
    IN  s \o [i \in 1..(target - Len(s)) |-> "="]

B64Alphabet ==
    << "A","B","C","D","E","F","G","H","I","J","K","L","M","N","O","P",
       "Q","R","S","T","U","V","W","X","Y","Z","a","b","c","d","e","f",
       "g","h","i","j","k","l","m","n","o","p","q","r","s","t","u","v",
       "w","x","y","z","0","1","2","3","4","5","6","7","8","9","+","/" >>

B64Value(c) == (CHOOSE i \in 1..64 : B64Alphabet[i] = c) - 1

IsB64Char(c) == \E i \in 1..64 : B64Alphabet[i] = c

\* The characters with codes 32..126, in order (<bq> is the backquote).
Ascii ==
    << " ","!","\"","#","$","%","&","'","(",")","*","+",",","-",".","/",
       "0","1","2","3","4","5","6","7","8","9",":",";","<","=",">","?",
       "@","A","B","C","D","E","F","G","H","I","J","K","L","M","N","O",
       "P","Q","R","S","T","U","V","W","X","Y","Z","[","\\","]","^","_",
       "<bq>","a","b","c","d","e","f","g","h","i","j","k","l","m","n","o",
       "p","q","r","s","t","u","v","w","x","y","z","{","|","}","~" >>

\* The character of a byte; a byte outside 32..126 is one unprintable character.
CharOf(b) == IF b >= 32 /\ b <= 126 THEN Ascii[b - 31] ELSE "<np>"

\* The bytes of base64 data without padding, four characters to three bytes.
RECURSIVE B64Bytes(_)
B64Bytes(s) ==
    IF Len(s) < 2 THEN <<>>
    ELSE LET a == B64Value(s[1])
             b == B64Value(s[2])
             b1 == a * 4 + (b \div 16)
         IN  IF Len(s) = 2 THEN <<CharOf(b1)>>
             ELSE LET c == B64Value(s[3])
                      b2 == (b % 16) * 16 + (c \div 4)
                  IN  IF Len(s) = 3 THEN <<CharOf(b1), CharOf(b2)>>
                      ELSE LET d == B64Value(s[4])
                               b3 == (c % 4) * 64 + d
                           IN  <<CharOf(b1), CharOf(b2), CharOf(b3)>>
                                 \o B64Bytes(SubSeq(s, 5, Len(s)))

\* The data of atob's argument: with a length that is a multiple of four, up to
\* two trailing "=" are dropped.
StripPadding(s) ==
    IF Len(s) % 4 # 0 \/ Len(s) = 0 THEN s
    ELSE IF s[Len(s)] # "=" THEN s
    ELSE IF s[Len(s) - 1] # "=" THEN SubSeq(s, 1, Len(s) - 1)
    ELSE SubSeq(s, 1, Len(s) - 2)

\* atob: [ok |-> FALSE] when it throws, else the decoded text.
Atob(s) ==
    LET data == StripPadding(s)
    IN  IF Len(data) % 4 = 1 \/ \E i \in 1..Len(data) : ~IsB64Char(data[i])
        THEN [ok |-> FALSE, text |-> <<>>]
        ELSE [ok |-> TRUE, text |-> B64Bytes(data)]

(***************************************************************************)
(* JSON.parse, for texts without white space, escapes, signs, fractions or *)
(* arrays.  A value is [type |-> t, ...]; of an object only the member     *)
(* `exp` is kept, which is the only one getTokenExpiryTime reads.          *)
(***************************************************************************)
Undefined == [type |-> "undefined"]
ParseFail == [ok |-> FALSE, next |-> 0, val |-> Undefined]
ParseOk(next, val) == [ok |-> TRUE, next |-> next, val |-> val]

Digits == <<"0","1","2","3","4","5","6","7","8","9">>
IsDigit(c) == \E d \in 1..10 : Digits[d] = c
DigitValue(c) == (CHOOSE d \in 1..10 : Digits[d] = c) - 1

\* The index after the last digit of the run of digits starting at i.
RECURSIVE DigitsEnd(_, _)
DigitsEnd(s, i) ==
    IF i <= Len(s) /\ IsDigit(s[i]) THEN DigitsEnd(s, i + 1) ELSE i

\* The number written by the digits s[i..j-1].
RECURSIVE DigitsValue(_, _, _)
DigitsValue(s, i, j) ==
    IF j <= i THEN 0 ELSE DigitsValue(s, i, j - 1) * 10 + DigitValue(s[j - 1])

RECURSIVE Pow10(_)
Pow10(e) == IF e = 0 THEN 1 ELSE 10 * Pow10(e - 1)

\* The largest decimal exponent of a finite double.
MaxDoubleExponent == 308

\* A number: digits, then optionally e and digits.  Beyond the range of a
\* double the value is Infinity (finite |-> FALSE).
ParseNumber(s, i) ==
    LET j == DigitsEnd(s, i)
        m == DigitsValue(s, i, j)
    IN  IF j = i THEN ParseFail
        ELSE IF j <= Len(s) /\ s[j] \in {"e", "E"}
        THEN LET k == DigitsEnd(s, j + 1)
                 e == DigitsValue(s, j + 1, k)
             IN  IF k = j + 1 THEN ParseFail
                 ELSE IF m # 0 /\ e > MaxDoubleExponent
                 THEN ParseOk(k, [type |-> "number", finite |-> FALSE, n |-> 0])
                 ELSE ParseOk(k, [type |-> "number", finite |-> TRUE,
                                  n |-> m * Pow10(e)])
        ELSE ParseOk(j, [type |-> "number", finite |-> TRUE, n |-> m])

\* The index of the quote closing the string whose text starts at i, or 0.
RECURSIVE StringEnd(_, _)
StringEnd(s, i) ==
    IF i > Len(s) THEN 0
    ELSE IF s[i] = "\"" THEN i
    ELSE StringEnd(s, i + 1)

\* Whether s holds the word w at index i.
HasWord(s, i, w) ==
    /\ i + Len(w) - 1 <= Len(s)
    /\ SubSeq(s, i, i + Len(w) - 1) = w

RECURSIVE ParseValue(_, _)
RECURSIVE ParseMembers(_, _, _)

\* The members of an object from index i on, `exp` being the value of the
\* member exp seen so far (a later member of the same name wins).
ParseMembers(s, i, exp) ==
    IF i > Len(s) \/ s[i] # "\"" THEN ParseFail
    ELSE LET q == StringEnd(s, i + 1)
         IN  IF q = 0 \/ q + 1 > Len(s) \/ s[q + 1] # ":" THEN ParseFail
             ELSE LET key == SubSeq(s, i + 1, q - 1)
                      v == ParseValue(s, q + 2)
                      exp2 == IF key = <<"e", "x", "p">> THEN v.val ELSE exp
                  IN  IF ~v.ok \/ v.next > Len(s) THEN ParseFail
                      ELSE IF s[v.next] = "}"
                      THEN ParseOk(v.next + 1, [type |-> "object", exp |-> exp2])
                      ELSE IF s[v.next] = ","
                      THEN ParseMembers(s, v.next + 1, exp2)
                      ELSE ParseFail

ParseValue(s, i) ==
    IF i > Len(s) THEN ParseFail
    ELSE IF s[i] = "{"
    THEN IF i + 1 <= Len(s) /\ s[i + 1] = "}"
         THEN ParseOk(i + 2, [type |-> "object", exp |-> Undefined])
         ELSE ParseMembers(s, i + 1, Undefined)
    ELSE IF s[i] = "\""
    THEN LET q == StringEnd(s, i + 1)
         IN  IF q = 0 THEN ParseFail ELSE ParseOk(q + 1, [type |-> "string"])
    ELSE IF IsDigit(s[i]) THEN ParseNumber(s, i)
    ELSE IF HasWord(s, i, <<"n", "u", "l", "l">>)
    THEN ParseOk(i + 4, [type |-> "null"])
    ELSE IF HasWord(s, i, <<"t", "r", "u", "e">>)
    THEN ParseOk(i + 4, [type |-> "boolean"])
    ELSE IF HasWord(s, i, <<"f", "a", "l", "s", "e">>)
    THEN ParseOk(i + 5, [type |-> "boolean"])
    ELSE ParseFail

\* JSON.parse: [ok |-> FALSE] when it throws, else the value.
JsonParse(text) ==
    LET r == ParseValue(text, 1)
    IN  IF r.ok /\ r.next = Len(text) + 1
        THEN [ok |-> TRUE, val |-> r.val]
        ELSE [ok |-> FALSE, val |-> Undefined]

(***************************************************************************)
(* contexts/AuthContext.tsx: expiry of a token                             *)
(***************************************************************************)
\* The result of getTokenExpiryTime on a token without a known expiry.
NoExpiry == [known |-> FALSE, time |-> 0]

MsPerSecond == 1000

\* A getTokenExpiryTime without the two replace calls of lines 25-26: it fails on
\* payloads in the URL-safe alphabet.
getTokenExpiryTime_NoUrlReplace(tok) ==
    LET tokenParts == Split(tok)
    IN  IF Len(tokenParts) # 3 THEN NoExpiry
        ELSE LET decoded == Atob(PadEnd(tokenParts[2]))
                 parsed == IF decoded.ok THEN JsonParse(decoded.text)
                           ELSE [ok |-> FALSE, val |-> Undefined]
             IN  IF ~parsed.ok \/ parsed.val.type # "object" THEN NoExpiry
                 ELSE IF parsed.val.exp.type # "number" THEN NoExpiry
                 ELSE IF ~parsed.val.exp.finite THEN NoExpiry
                 ELSE [known |-> TRUE, time |-> parsed.val.exp.n * MsPerSecond]

\* getTokenExpiryTime: the expiry instant in milliseconds, or null (NoExpiry).
\* Reading `.exp` of null throws, which the catch turns into null; of a number,
\* string or boolean it is undefined.
getTokenExpiryTime(tok) ==
    LET tokenParts == Split(tok)
    IN  IF Len(tokenParts) # 3 THEN NoExpiry
        ELSE LET payload == PadEnd(ReplaceUrlChars(tokenParts[2]))
                 decoded == Atob(payload)
                 parsed == IF decoded.ok THEN JsonParse(decoded.text)
                           ELSE [ok |-> FALSE, val |-> Undefined]
             IN  IF ~parsed.ok THEN NoExpiry
                 ELSE IF parsed.val.type = "null" THEN NoExpiry
                 ELSE LET exp == IF parsed.val.type = "object"
                                 THEN parsed.val.exp ELSE Undefined
                      IN  IF exp.type # "number" THEN NoExpiry
                          ELSE IF ~exp.finite THEN NoExpiry
                          ELSE [known |-> TRUE, time |-> exp.n * MsPerSecond]

(***************************************************************************)
(* Token strings.  The middle segments are the base64url texts of the      *)
(* payloads named in the comments.                                         *)
(***************************************************************************)
\* base64url of {'exp':0}
SegExp0 ==
    <<"e","y","J","l","e","H","A","i","O","j","B","9">>
\* base64url of {'exp':1}
SegExp1 ==
    <<"e","y","J","l","e","H","A","i","O","j","F","9">>
\* base64url of {'exp':2}
SegExp2 ==
    <<"e","y","J","l","e","H","A","i","O","j","J","9">>
\* base64url of {'exp':2,'k':'~~~'}, whose base64url text holds a '-'
SegExp2Url ==
    <<"e","y","J","l","e","H","A","i","O","j","I","s","I","m","s","i","O","i","J","-","f","n","4","i","f","Q">>
\* base64url of {}
SegNoExp ==
    <<"e","3","0">>
\* base64url of {'exp':'1'}
SegExpString ==
    <<"e","y","J","l","e","H","A","i","O","i","I","x","I","n","0">>
\* base64url of {'exp':1e999}: exp parses to Infinity
SegExpInfinity ==
    <<"e","y","J","l","e","H","A","i","O","j","F","l","O","T","k","5","f","Q">>
\* base64url of null
SegJsonNull ==
    <<"b","n","V","s","b","A">>
\* base64url of { : not JSON
SegBadJson ==
    <<"e","3">>
\* base64url of nothing: atob throws
SegBadBase64 ==
    <<"e">>

SegHeader == <<"h">>
SegSignature == <<"s">>
Dot == <<".">>
Jwt(payload) == SegHeader \o Dot \o payload \o Dot \o SegSignature

\* The strings the model passes to setToken and finds in localStorage.
EmptyString == <<>>
OpaqueToken == <<"X">>
TwoSegmentToken == SegHeader \o Dot \o SegExp2
FourSegmentToken == Jwt(SegExp2) \o Dot \o SegSignature
EmptyPayloadToken == Jwt(<<>>)

StructuredTokens ==
    { Jwt(SegExp0), Jwt(SegExp1), Jwt(SegExp2), Jwt(SegExp2Url), Jwt(SegNoExp),
      Jwt(SegExpString), Jwt(SegExpInfinity), Jwt(SegJsonNull),
      Jwt(SegBadJson), Jwt(SegBadBase64), EmptyPayloadToken }

TokenStrings ==
    StructuredTokens \cup {EmptyString, OpaqueToken, TwoSegmentToken, FourSegmentToken}

\* getTokenExpiryTime of every token string of the model, computed once.
ExpiryTimes == [tok \in TokenStrings |-> getTokenExpiryTime(tok)]

\* An isTokenExpired comparing with > where line 50 compares with >=.
isTokenExpired_Strict(tok, t) ==
    LET expiryTime == ExpiryTimes[tok]
    IN  IF ~expiryTime.known THEN TRUE ELSE t > expiryTime.time

\* isTokenExpired at the instant t = Date.now().
isTokenExpired(tok, t) ==
    LET expiryTime == ExpiryTimes[tok]
    IN  IF ~expiryTime.known THEN TRUE ELSE t >= expiryTime.time

(***************************************************************************)
(* contexts/AuthContext.tsx: the token store                               *)
(***************************************************************************)
\* A state of the store: the provider's `token` and the authToken entry.
Store(tok, ls) == [token |-> tok, localStorage |-> ls]

\* Boolean(token), the context's isAuthenticated (line 92).
isAuthenticated(tok) == Truthy(tok)

\* An initializer without the expiry check of lines 61-64.
AuthProviderInit_KeepExpired(savedToken, t) ==
    IF ~Truthy(savedToken) THEN Store(Null, savedToken)
    ELSE Store(savedToken, savedToken)

\* The initializer of useState at lines 54-67, run with the entry `savedToken`
\* at the instant t.
AuthProviderInit(savedToken, t) ==
    IF ~Truthy(savedToken) THEN Store(Null, savedToken)
    ELSE IF isTokenExpired(savedToken[1], t) THEN Store(Null, Null)
    ELSE Store(savedToken, savedToken)

\* A setToken that persists the value before it checks the expiry.
setToken_PersistFirst(value, t) ==
    IF Truthy(value)
    THEN IF isTokenExpired(value[1], t)
         THEN Store(Null, value)
         ELSE Store(value, value)
    ELSE Store(value, Null)

\* setToken(value) at the instant t: the store it leaves.
setToken(value, t) ==
    IF Truthy(value)
    THEN IF isTokenExpired(value[1], t)
         THEN Store(Null, Null)
         ELSE Store(value, value)
    ELSE Store(value, Null)

\* A logout that clears the state and leaves the persisted entry.
logout_KeepPersisted(t) == Store(Null, localStorage)

\* logout()
logout(t) == setToken(Null, t)

(***************************************************************************)
(* components/Registration.tsx: the pure helpers                           *)
(***************************************************************************)
\* Values of a parsed response body (parseResponseBody): null for an empty
\* body, the JSON value, or the text when it is not JSON.
JNull == [type |-> "null"]
JString(text) == [type |-> "string", text |-> text]
JNumber(n) == [type |-> "number", n |-> n]
JObject(tok, accessToken, jwt, message) ==
    [type |-> "object", token |-> tok, accessToken |-> accessToken,
     jwt |-> jwt, message |-> message]

\* JavaScript truthiness of a body value or of a member.
JTruthy(v) ==
    CASE v.type = "undefined" -> FALSE
      [] v.type = "null" -> FALSE
      [] v.type = "string" -> Len(v.text) > 0
      [] v.type = "number" -> v.n # 0
      [] OTHER -> TRUE

\* a ?? b
Nullish(v) == v.type \in {"undefined", "null"}
Coalesce(a, b) == IF Nullish(a) THEN b ELSE a

\* extractToken: token ?? accessToken ?? jwt of an object, else undefined.
extractToken(data) ==
    IF ~JTruthy(data) \/ data.type # "object" THEN Undefined
    ELSE Coalesce(Coalesce(data.token, data.accessToken), data.jwt)

\* A getErrorMessage that does not look at the message member of an object.
getErrorMessage_StringOnly(data, fallback) ==
    IF ~JTruthy(data) THEN fallback
    ELSE IF data.type = "string" THEN data.text
    ELSE fallback

\* getErrorMessage(data, fallback)
getErrorMessage(data, fallback) ==
    IF ~JTruthy(data) THEN fallback
    ELSE IF data.type = "string" THEN data.text
    ELSE IF data.type = "object" /\ data.message.type = "string"
    THEN data.message.text
    ELSE fallback

FillInAllFields == "Please fill in all fields!"
PasswordsDoNotMatch == "Passwords do not match!"
SelectRegistrationType == "Please select a registration type."

\* A validateRegistrationData that compares the passwords before it looks for
\* empty fields.
validateRegistrationData_MatchFirst(data, regType) ==
    IF data.password # data.confirmPassword THEN Str(PasswordsDoNotMatch)
    ELSE IF data.username = "" \/ data.password = "" \/ data.confirmPassword = ""
    THEN Str(FillInAllFields)
    ELSE IF regType = Null THEN Str(SelectRegistrationType)
    ELSE Null

\* validateRegistrationData: the message of the first failing check, or null.
validateRegistrationData(data, regType) ==
    IF data.username = "" \/ data.password = "" \/ data.confirmPassword = ""
    THEN Str(FillInAllFields)
    ELSE IF data.password # data.confirmPassword THEN Str(PasswordsDoNotMatch)
    ELSE IF regType = Null THEN Str(SelectRegistrationType)
    ELSE Null

(***************************************************************************)
(* The inputs of the model                                                 *)
(***************************************************************************)
Roles == {"customer", "tradesperson"}
Usernames == {"", "alice"}
Passwords == {"", "pw"}
Confirmations == {"", "pw", "px"}

\* The token strings a backend response carries in the model.
FreshToken == Jwt(SegExp2)
OtherFreshToken == Jwt(SegExp2Url)
ShortLivedToken == Jwt(SegExp1)
ExpiredToken == Jwt(SegExp0)
BackendTokens == {FreshToken, ExpiredToken, OpaqueToken}

OkStatuses == {200}
ErrorStatuses == {400}

\* The bodies of the responses to /auth/register and /auth/login.
TokenBodies ==
    { JObject(JString(t), Undefined, Undefined, Undefined) : t \in BackendTokens }
    \cup
    { JObject(Undefined, JString(FreshToken), Undefined, Undefined),
      JObject(JNull, JNull, JString(FreshToken), Undefined),
      JObject(JString(EmptyString), JString(FreshToken), Undefined, Undefined),
      JObject(JString(FreshToken), JString(ExpiredToken), Undefined, Undefined) }

OtherBodies ==
    { JNull, JString("Username taken"), JString(""), JNumber(7),
      JObject(Undefined, Undefined, Undefined, Undefined),
      JObject(Undefined, Undefined, Undefined, JString("Role not allowed")) }

\* ApiResponse: what postJson resolves to.
ApiResponses ==
    [ok : {TRUE}, status : OkStatuses, data : TokenBodies \cup OtherBodies]
    \cup [ok : {FALSE}, status : ErrorStatuses, data : OtherBodies]

\* The responses to GET /protected: status and body text.
UnauthorizedStatus == 401
ProtectedStatuses == OkStatuses \cup {UnauthorizedStatus, 403}
ProtectedBodies == {"", "denied"}

(***************************************************************************)
(* Messages                                                                *)
(***************************************************************************)
\* A message of a snackbar: a text, or the template `<text> (status <n>)`.
NoStatus == 0
Notice(text) == [text |-> text, status |-> NoStatus]
StatusNotice(text, status) == [text |-> text, status |-> status]

RegistrationFailed == "Registration failed."
LoginFailed == "Login failed after registration."
NoTokenReturned == "Login succeeded, but no token was returned by the backend."
RequestFailedCors ==
    "Request failed. If the browser console shows a CORS error, enable CORS for your frontend origin on the backend."

\* `Registered as ${registrationType}!`
RegisteredAs(role) ==
    IF role = "customer" THEN "Registered as customer!"
    ELSE "Registered as tradesperson!"

\* App's protectedResponse: `<prefix> <status>: <text>`, or a plain text.
ProtectedMessage(prefix, status, text) ==
    [prefix |-> prefix, status |-> status, text |-> text]
NoProtectedResponse == ProtectedMessage("", NoStatus, "")
SessionExpired == ProtectedMessage("", NoStatus, "Session expired. Please login again.")
ProtectedRequestFailed ==
    ProtectedMessage("", NoStatus,
        "Request failed. Check backend availability/CORS in browser console.")

\* A snackbar: showSnackBar, snackBarMessage, snackBarSeverity.
SnackBar(show, message, severity) ==
    [show |-> show, message |-> message, severity |-> severity]
\* The snackbar states of useState at Registration lines 162-164 and App 16-19.
RegistrationSnackBarInit == SnackBar(FALSE, Notice(""), "info")
AppSnackBarInit == SnackBar(FALSE, Notice(""), "success")

\* The form of useState at Registration lines 156-160.
EmptyForm == [username |-> "", password |-> "", confirmPassword |-> ""]

(***************************************************************************)
(* Requests and suspended handlers                                         *)
(***************************************************************************)
RegisterRequest(username, password, role) ==
    [path |-> "/auth/register", username |-> username, password |-> password,
     role |-> role]
LoginRequest(username, password) ==
    [path |-> "/auth/login", username |-> username, password |-> password,
     role |-> ""]

\* A submitHandler call suspended at an await: the await it is at ("register"
\* or "login"), the values of its closure (username, password,
\* registrationType), whether the Registration instance it belongs to is still
\* mounted, and the requests it has issued.
Submission(pc, username, password, role, mounted, issued) ==
    [pc |-> pc, username |-> username, password |-> password, role |-> role,
     mounted |-> mounted, requests |-> issued]

\* Every suspended submission belongs to an unmounted instance once the
\* Registration component unmounts.
Unmounted(bag) ==
    LET subs == BagToSet(bag)
        gone(x) == [x EXCEPT !.mounted = FALSE]
    IN  [y \in {gone(x) : x \in subs} |->
            LET same == {x \in subs : gone(x) = y}
                RECURSIVE Sum(_)
                Sum(S) == IF S = {} THEN 0
                          ELSE LET x == CHOOSE x \in S : TRUE
                               IN  bag[x] + Sum(S \ {x})
            IN  Sum(same)]

\* `last` after a step that called the store, and after one that did not.  The
\* argument of a logout is the token under which the request that triggered it
\* was sent, or null for a click.
StoreCall(op, arg) ==
    [op |-> op, arg |-> arg, pre |-> [token |-> token, localStorage |-> localStorage]]
NoCall == [op |-> "none", arg |-> Null, pre |-> [token |-> Null, localStorage |-> Null]]

(***************************************************************************)
(* Initial state: the page loads with some authToken entry in localStorage *)
(***************************************************************************)
SavedEntries == {Null} \cup {Str(t) : t \in TokenStrings}

\* The message App's effect (lines 21-35) finds when it runs with the store
\* token tok and the entry ss in sessionStorage: Null when it returns early.
PendingSuccessMessage(tok, ss) ==
    IF isAuthenticated(tok) /\ ss # Null /\ ss[1] # "" THEN ss ELSE Null

Init ==
    /\ now = 0
    /\ \E saved \in SavedEntries :
          /\ token = AuthProviderInit(saved, 0).token
          /\ localStorage = AuthProviderInit(saved, 0).localStorage
          /\ last = [op |-> "init", arg |-> saved,
                     pre |-> [token |-> Null, localStorage |-> saved]]
    /\ sessionStorage = Null
    /\ registrationType = Null
    /\ registrationData = EmptyForm
    /\ regSnackBar = RegistrationSnackBarInit
    /\ appSnackBar = AppSnackBarInit
    /\ protectedResponse = NoProtectedResponse
    /\ submissions = EmptyBag
    /\ protectedCalls = EmptyBag

(***************************************************************************)
(* Steps common to the store and the application                           *)
(***************************************************************************)
\* A clock with a background timer that signs out once the token's exp has
\* passed; the store has no such timer.
Tick_ExpiryTimer ==
    /\ now + (MsPerSecond \div 2) <= MaxNow
    /\ now' = now + (MsPerSecond \div 2)
    /\ last' = NoCall
    /\ IF Truthy(token) /\ isTokenExpired(token[1], now')
       THEN token' = Null /\ localStorage' = Null
       ELSE UNCHANGED <<token, localStorage>>
    /\ UNCHANGED <<sessionStorage, registrationType, registrationData,
                   regSnackBar, appSnackBar, protectedResponse, submissions,
                   protectedCalls>>

\* Time passes.
Tick ==
    /\ now + (MsPerSecond \div 2) <= MaxNow
    /\ now' = now + (MsPerSecond \div 2)
    /\ last' = NoCall
    /\ UNCHANGED <<localStorage, token, sessionStorage, registrationType,
                   registrationData, regSnackBar, appSnackBar,
                   protectedResponse, submissions, protectedCalls>>

\* The view after the store went from the token `token` to st.token, the
\* handler having left ss in sessionStorage: App's effect on isAuthenticated
\* shows and removes the pending success message when the view becomes
\* authenticated; Registration is rendered only while unauthenticated, and
\* unmounting it discards its state.
ViewAfter(st, ss) ==
    LET becameAuthenticated == isAuthenticated(st.token) /\ ~isAuthenticated(token)
        message == IF becameAuthenticated
                   THEN PendingSuccessMessage(st.token, ss) ELSE Null
    IN  /\ token' = st.token
        /\ localStorage' = st.localStorage
        /\ IF message # Null
           THEN /\ appSnackBar' = SnackBar(TRUE, Notice(message[1]), "success")
                /\ sessionStorage' = Null
           ELSE /\ appSnackBar' = appSnackBar
                /\ sessionStorage' = ss
        /\ IF becameAuthenticated
           THEN /\ registrationType' = Null
                /\ registrationData' = EmptyForm
           ELSE UNCHANGED <<registrationType, registrationData>>

\* The page is reloaded: every component mounts anew, suspended handlers are
\* gone, localStorage and sessionStorage stay.
Reload ==
    LET st == AuthProviderInit(localStorage, now)
        message == PendingSuccessMessage(st.token, sessionStorage)
    IN  /\ token' = st.token
        /\ localStorage' = st.localStorage
        /\ IF message # Null
           THEN /\ appSnackBar' = SnackBar(TRUE, Notice(message[1]), "success")
                /\ sessionStorage' = Null
           ELSE /\ appSnackBar' = AppSnackBarInit
                /\ sessionStorage' = sessionStorage
        /\ registrationType' = Null
        /\ registrationData' = EmptyForm
        /\ regSnackBar' = RegistrationSnackBarInit
        /\ protectedResponse' = NoProtectedResponse
        /\ submissions' = EmptyBag
        /\ protectedCalls' = EmptyBag
        /\ last' = StoreCall("init", localStorage)
        /\ UNCHANGED now

(***************************************************************************)
(* The store driven through its context by any consumer                    *)
(***************************************************************************)
\* A consumer calls setToken(value).
SetTokenCall(value) ==
    /\ ViewAfter(setToken(value, now), sessionStorage)
    /\ last' = StoreCall("setToken", value)
    /\ UNCHANGED <<now, regSnackBar, protectedResponse, submissions, protectedCalls>>

\* A consumer calls logout().
LogoutCall ==
    /\ ViewAfter(logout(now), sessionStorage)
    /\ last' = StoreCall("logout", Null)
    /\ UNCHANGED <<now, regSnackBar, protectedResponse, submissions, protectedCalls>>

StoreNext ==
    \/ Tick
    \/ Reload
    \/ \E value \in SavedEntries : SetTokenCall(value)
    \/ LogoutCall

StoreSpec == Init /\ [][StoreNext]_vars

(***************************************************************************)
(* components/Registration.tsx: the handlers                               *)
(***************************************************************************)
\* openSnackBar(message, severity) of the mounted Registration instance.
openSnackBar(message, severity) == SnackBar(TRUE, message, severity)

\* An onClickHandler that resets the form on every click.
onClickHandler_AlwaysReset(type) ==
    /\ ~isAuthenticated(token)
    /\ registrationData' = EmptyForm
    /\ registrationType' = Str(type)
    /\ last' = NoCall
    /\ UNCHANGED <<now, localStorage, token, sessionStorage, regSnackBar,
                   appSnackBar, protectedResponse, submissions, protectedCalls>>

\* onClickHandler(type): a click on one of the two role buttons.
onClickHandler(type) ==
    /\ ~isAuthenticated(token)
    /\ registrationData' = IF Str(type) # registrationType THEN EmptyForm
                           ELSE registrationData
    /\ registrationType' = Str(type)
    /\ last' = NoCall
    /\ UNCHANGED <<now, localStorage, token, sessionStorage, regSnackBar,
                   appSnackBar, protectedResponse, submissions, protectedCalls>>

\* The onChange handlers of the three text fields, which are rendered once a
\* role is selected.
ChangeField(field, value) ==
    /\ ~isAuthenticated(token)
    /\ registrationType # Null
    /\ registrationData[field] # value
    /\ registrationData' = [registrationData EXCEPT ![field] = value]
    /\ last' = NoCall
    /\ UNCHANGED <<now, localStorage, token, sessionStorage, registrationType,
                   regSnackBar, appSnackBar, protectedResponse, submissions,
                   protectedCalls>>

\* submitHandler up to its first await: a click on Submit, which is rendered
\* once a role is selected.  A failed validation ends the call; otherwise the
\* register request is issued and the call is suspended with its closure.
submitHandler ==
    /\ ~isAuthenticated(token)
    /\ registrationType # Null
    /\ LET username == registrationData.username
           password == registrationData.password
           validationError ==
               validateRegistrationData(registrationData, registrationType)
       IN  IF validationError # Null
           THEN /\ regSnackBar' = openSnackBar(Notice(validationError[1]), "error")
                /\ UNCHANGED submissions
           ELSE /\ submissions' = submissions (+)
                       SetToBag({Submission("register", username, password,
                                            registrationType[1], TRUE,
                                            <<RegisterRequest(username, password,
                                                              registrationType[1])>>)})
                /\ UNCHANGED regSnackBar
    /\ last' = NoCall
    /\ UNCHANGED <<now, localStorage, token, sessionStorage, registrationType,
                   registrationData, appSnackBar, protectedResponse,
                   protectedCalls>>

\* The suspended submissions without the one that resumes.
Resumed(sub) == submissions (-) SetToBag({sub})

\* The suspended submissions after the store went to the token tok.
SubmissionsAfter(bag, tok) ==
    IF isAuthenticated(tok) /\ ~isAuthenticated(token) THEN Unmounted(bag) ELSE bag

\* An ending that shows the notice whether or not the Registration instance of
\* the call is still mounted.
EndWithError_AlsoUnmounted(sub, message) ==
    /\ regSnackBar' = openSnackBar(message, "error")
    /\ submissions' = Resumed(sub)
    /\ last' = NoCall
    /\ UNCHANGED <<localStorage, token, sessionStorage, registrationType,
                   registrationData, appSnackBar>>

\* A suspended submission ends with an error notice: openSnackBar acts on the
\* Registration instance of the call, if it is still mounted.
EndWithError(sub, message) ==
    /\ regSnackBar' = IF sub.mounted THEN openSnackBar(message, "error")
                      ELSE regSnackBar
    /\ submissions' = Resumed(sub)
    /\ last' = NoCall
    /\ UNCHANGED <<localStorage, token, sessionStorage, registrationType,
                   registrationData, appSnackBar>>

\* A suspended submission ends by storing the token it extracted (lines
\* 222-223 and 257-258): the pending success message, then setToken.
EndWithToken(sub, tok) ==
    LET st == setToken(Str(tok), now)
    IN  /\ ViewAfter(st, Str(RegisteredAs(sub.role)))
        /\ submissions' = SubmissionsAfter(Resumed(sub), st.token)
        /\ regSnackBar' = IF isAuthenticated(st.token) /\ ~isAuthenticated(token)
                          THEN RegistrationSnackBarInit ELSE regSnackBar
        /\ last' = StoreCall("setToken", Str(tok))

\* A handler without the `return` of line 224: it goes on to log in after it
\* stored the token of the register response.
RegisterResponse_NoReturn(sub, response) ==
    /\ BagIn(sub, submissions)
    /\ sub.pc = "register"
    /\ LET registrationToken == extractToken(response.data)
           login == [sub EXCEPT !.pc = "login",
                                !.requests = Append(@, LoginRequest(sub.username,
                                                                    sub.password))]
       IN  IF ~response.ok
           THEN EndWithError(sub,
                    StatusNotice(getErrorMessage(response.data, RegistrationFailed),
                                 response.status))
           ELSE IF JTruthy(registrationToken)
           THEN LET st == setToken(Str(registrationToken.text), now)
                IN  /\ ViewAfter(st, Str(RegisteredAs(sub.role)))
                    /\ submissions' =
                           SubmissionsAfter(Resumed(sub) (+) SetToBag({login}), st.token)
                    /\ regSnackBar' =
                           IF isAuthenticated(st.token) /\ ~isAuthenticated(token)
                           THEN RegistrationSnackBarInit ELSE regSnackBar
                    /\ last' = StoreCall("setToken", Str(registrationToken.text))
           ELSE /\ submissions' = Resumed(sub) (+) SetToBag({login})
                /\ last' = NoCall
                /\ UNCHANGED <<localStorage, token, sessionStorage,
                               registrationType, registrationData, regSnackBar,
                               appSnackBar>>
    /\ UNCHANGED <<now, protectedResponse, protectedCalls>>

\* A handler that logs in with the form's current fields instead of the
\* values its closure captured.
RegisterResponse_LoginFromForm(sub, response) ==
    /\ BagIn(sub, submissions)
    /\ sub.pc = "register"
    /\ LET registrationToken == extractToken(response.data)
       IN  IF ~response.ok
           THEN EndWithError(sub,
                    StatusNotice(getErrorMessage(response.data, RegistrationFailed),
                                 response.status))
           ELSE IF JTruthy(registrationToken)
           THEN EndWithToken(sub, registrationToken.text)
           ELSE /\ submissions' = Resumed(sub) (+)
                       SetToBag({[sub EXCEPT
                           !.pc = "login",
                           !.requests = Append(@,
                               LoginRequest(registrationData.username,
                                            registrationData.password))]})
                /\ last' = NoCall
                /\ UNCHANGED <<localStorage, token, sessionStorage,
                               registrationType, registrationData, regSnackBar,
                               appSnackBar>>
    /\ UNCHANGED <<now, protectedResponse, protectedCalls>>

\* submitHandler from the response to /auth/register on (lines 208-230).
RegisterResponse(sub, response) ==
    /\ BagIn(sub, submissions)
    /\ sub.pc = "register"
    /\ LET registrationToken == extractToken(response.data)
       IN  IF ~response.ok
           THEN EndWithError(sub,
                    StatusNotice(getErrorMessage(response.data, RegistrationFailed),
                                 response.status))
           ELSE IF JTruthy(registrationToken)
           THEN EndWithToken(sub, registrationToken.text)
           ELSE /\ submissions' = Resumed(sub) (+)
                       SetToBag({[sub EXCEPT
                           !.pc = "login",
                           !.requests = Append(@, LoginRequest(sub.username,
                                                               sub.password))]})
                /\ last' = NoCall
                /\ UNCHANGED <<localStorage, token, sessionStorage,
                               registrationType, registrationData, regSnackBar,
                               appSnackBar>>
    /\ UNCHANGED <<now, protectedResponse, protectedCalls>>

\* submitHandler from the response to /auth/login on (lines 232-258).
LoginResponse(sub, response) ==
    /\ BagIn(sub, submissions)
    /\ sub.pc = "login"
    /\ LET tok == extractToken(response.data)
       IN  IF ~response.ok
           THEN EndWithError(sub,
                    StatusNotice(getErrorMessage(response.data, LoginFailed),
                                 response.status))
           ELSE IF ~JTruthy(tok)
           THEN EndWithError(sub, Notice(NoTokenReturned))
           ELSE EndWithToken(sub, tok.text)
    /\ UNCHANGED <<now, protectedResponse, protectedCalls>>

\* Either request of a suspended submission fails in the transport: the catch
\* of lines 259-265.
RequestFailure(sub) ==
    /\ BagIn(sub, submissions)
    /\ EndWithError(sub, Notice(RequestFailedCors))
    /\ UNCHANGED <<now, protectedResponse, protectedCalls>>

\* The snackbar of Registration closes (autoHideDuration or onClose).
CloseRegistrationSnackBar ==
    /\ regSnackBar.show
    /\ regSnackBar' = [regSnackBar EXCEPT !.show = FALSE]
    /\ last' = NoCall
    /\ UNCHANGED <<now, localStorage, token, sessionStorage, registrationType,
                   registrationData, appSnackBar, protectedResponse,
                   submissions, protectedCalls>>

(***************************************************************************)
(* App.tsx: the handlers                                                   *)
(***************************************************************************)
\* A callProtectedEndpoint call suspended at an await, with the token of its
\* closure.
ProtectedCall(tok) ==
    [token |-> tok, request |-> [path |-> "/protected", authorization |-> tok]]

\* callProtectedEndpoint up to its first await: a click on the button, which is
\* rendered while authenticated.
callProtectedEndpoint ==
    /\ isAuthenticated(token)
    /\ protectedCalls' = protectedCalls (+) SetToBag({ProtectedCall(token[1])})
    /\ last' = NoCall
    /\ UNCHANGED <<now, localStorage, token, sessionStorage, registrationType,
                   registrationData, regSnackBar, appSnackBar,
                   protectedResponse, submissions>>

\* What the view shows of protectedResponse: it is rendered in the branch of
\* the authenticated view only (lines 83-109).
VisibleProtectedResponse(tok, response) ==
    IF isAuthenticated(tok) THEN response ELSE NoProtectedResponse

\* A handler that logs out on 401 only if the store still holds the token the
\* request was sent under.
ProtectedResponse_LogoutIfSameToken(call, status, bodyText) ==
    /\ BagIn(call, protectedCalls)
    /\ protectedCalls' = protectedCalls (-) SetToBag({call})
    /\ IF status \notin OkStatuses
       THEN LET errorText == IF bodyText # "" THEN bodyText ELSE "Request failed"
            IN  IF status = UnauthorizedStatus
                THEN /\ IF token = Str(call.token)
                        THEN ViewAfter(logout(now), sessionStorage)
                        ELSE UNCHANGED <<localStorage, token, sessionStorage,
                                         registrationType, registrationData,
                                         appSnackBar>>
                     /\ protectedResponse' = SessionExpired
                     /\ last' = StoreCall("logout", Str(call.token))
                ELSE /\ protectedResponse' = ProtectedMessage("Error", status, errorText)
                     /\ last' = NoCall
                     /\ UNCHANGED <<localStorage, token, sessionStorage,
                                    registrationType, registrationData,
                                    appSnackBar>>
       ELSE /\ protectedResponse' =
                   ProtectedMessage("Success", status,
                                    IF bodyText # "" THEN bodyText ELSE "No content")
            /\ last' = NoCall
            /\ UNCHANGED <<localStorage, token, sessionStorage, registrationType,
                           registrationData, appSnackBar>>
    /\ UNCHANGED <<now, regSnackBar, submissions>>

\* callProtectedEndpoint from the response on (lines 51-68).
ProtectedResponse(call, status, bodyText) ==
    /\ BagIn(call, protectedCalls)
    /\ protectedCalls' = protectedCalls (-) SetToBag({call})
    /\ IF status \notin OkStatuses
       THEN LET errorText == IF bodyText # "" THEN bodyText ELSE "Request failed"
            IN  IF status = UnauthorizedStatus
                THEN /\ ViewAfter(logout(now), sessionStorage)
                     /\ protectedResponse' = SessionExpired
                     /\ last' = StoreCall("logout", Str(call.token))
                ELSE /\ protectedResponse' = ProtectedMessage("Error", status, errorText)
                     /\ last' = NoCall
                     /\ UNCHANGED <<localStorage, token, sessionStorage,
                                    registrationType, registrationData,
                                    appSnackBar>>
       ELSE /\ protectedResponse' =
                   ProtectedMessage("Success", status,
                                    IF bodyText # "" THEN bodyText ELSE "No content")
            /\ last' = NoCall
            /\ UNCHANGED <<localStorage, token, sessionStorage, registrationType,
                           registrationData, appSnackBar>>
    /\ UNCHANGED <<now, regSnackBar, submissions>>

\* The request of a suspended callProtectedEndpoint fails in the transport: the
\* catch of lines 69-74.
ProtectedFailure(call) ==
    /\ BagIn(call, protectedCalls)
    /\ protectedCalls' = protectedCalls (-) SetToBag({call})
    /\ protectedResponse' = ProtectedRequestFailed
    /\ last' = NoCall
    /\ UNCHANGED <<now, localStorage, token, sessionStorage, registrationType,
                   registrationData, regSnackBar, appSnackBar, submissions>>

\* A click on Logout, which is rendered while authenticated.
LogoutClick ==
    /\ isAuthenticated(token)
    /\ ViewAfter(logout(now), sessionStorage)
    /\ last' = StoreCall("logout", Null)
    /\ UNCHANGED <<now, regSnackBar, protectedResponse, submissions, protectedCalls>>

\* The snackbar of App closes (autoHideDuration or onClose).
CloseAppSnackBar ==
    /\ appSnackBar.show
    /\ appSnackBar' = [appSnackBar EXCEPT !.show = FALSE]
    /\ last' = NoCall
    /\ UNCHANGED <<now, localStorage, token, sessionStorage, registrationType,
                   registrationData, regSnackBar, protectedResponse,
                   submissions, protectedCalls>>

(***************************************************************************)
(* The specifications.  Each takes the handlers of the part of the program *)
(* it is about, with inputs drawn from the sets it names; the number of    *)
(* handlers suspended at the same time is capped.                          *)
(***************************************************************************)
\* The page loads without an authToken entry.
InitSignedOut == Init /\ localStorage = Null

\* The form of Registration: role buttons, text fields and Submit, with
\* requests that only ever fail in the transport.
FormNext ==
    \/ \E type \in Roles : onClickHandler(type)
    \/ \E value \in Usernames : ChangeField("username", value)
    \/ \E value \in Passwords : ChangeField("password", value)
    \/ \E value \in Confirmations : ChangeField("confirmPassword", value)
    \/ (submitHandler /\ BagCardinality(submissions') <= MaxSubmissions)
    \/ \E sub \in BagToSet(submissions) : RequestFailure(sub)
    \/ CloseRegistrationSnackBar

FormSpec == InitSignedOut /\ [][FormNext]_vars

\* The registration protocol against a backend that answers with any of
\* ApiResponses, at one instant of the clock.
SubmitNext ==
    \/ \E type \in Roles : onClickHandler(type)
    \/ \E value \in Usernames : ChangeField("username", value)
    \/ \E value \in Passwords : ChangeField("password", value)
    \/ \E value \in Passwords : ChangeField("confirmPassword", value)
    \/ (submitHandler /\ BagCardinality(submissions') <= MaxSubmitting)
    \/ \E sub \in BagToSet(submissions), response \in ApiResponses :
          RegisterResponse(sub, response)
    \/ \E sub \in BagToSet(submissions), response \in ApiResponses :
          LoginResponse(sub, response)
    \/ \E sub \in BagToSet(submissions) : RequestFailure(sub)
    \/ LogoutClick

SubmitSpec == InitSignedOut /\ [][SubmitNext]_vars

\* The whole application, for one role and a backend that answers a request
\* to /auth/register or /auth/login with one of a few responses.
AppRoles == {"customer"}
AppResponses ==
    { [ok |-> TRUE, status |-> 200,
       data |-> JObject(JString(FreshToken), Undefined, Undefined, Undefined)],
      [ok |-> TRUE, status |-> 200,
       data |-> JObject(JString(ShortLivedToken), Undefined, Undefined, Undefined)],
      [ok |-> TRUE, status |-> 200, data |-> JNull],
      [ok |-> FALSE, status |-> 400, data |-> JNull] }

\* The page loads without an authToken entry, or with a token persisted by an
\* earlier visit.
InitApp == Init /\ localStorage \in {Null, Str(ShortLivedToken)}

Next ==
    \/ Tick
    \/ Reload
    \/ \E type \in AppRoles : onClickHandler(type)
    \/ \E value \in Usernames : ChangeField("username", value)
    \/ \E value \in Passwords : ChangeField("password", value)
    \/ \E value \in Passwords : ChangeField("confirmPassword", value)
    \/ (submitHandler /\ BagCardinality(submissions') <= MaxSubmitting)
    \/ \E sub \in BagToSet(submissions), response \in AppResponses :
          RegisterResponse(sub, response)
    \/ \E sub \in BagToSet(submissions), response \in AppResponses :
          LoginResponse(sub, response)
    \/ \E sub \in BagToSet(submissions) : RequestFailure(sub)
    \/ (callProtectedEndpoint /\ BagCardinality(protectedCalls') <= MaxProtectedCalls)
    \/ \E call \in BagToSet(protectedCalls), status \in ProtectedStatuses,
          bodyText \in ProtectedBodies : ProtectedResponse(call, status, bodyText)
    \/ \E call \in BagToSet(protectedCalls) : ProtectedFailure(call)
    \/ LogoutClick
    \/ CloseAppSnackBar

Spec == InitApp /\ [][Next]_vars

\* Submissions racing each other: Submit is clicked again while requests are
\* outstanding, against a backend that answers with a token, with no token or
\* with an error.
RaceResponses ==
    { [ok |-> TRUE, status |-> 200,
       data |-> JObject(JString(FreshToken), Undefined, Undefined, Undefined)],
      [ok |-> TRUE, status |-> 200,
       data |-> JObject(JString(OtherFreshToken), Undefined, Undefined, Undefined)],
      [ok |-> TRUE, status |-> 200, data |-> JNull],
      [ok |-> FALSE, status |-> 400, data |-> JString("Username taken")],
      [ok |-> FALSE, status |-> 400,
       data |-> JObject(Undefined, Undefined, Undefined, JString("Role not allowed"))],
      [ok |-> FALSE, status |-> 400, data |-> JNull] }

RaceNext ==
    \/ \E type \in AppRoles : onClickHandler(type)
    \/ \E value \in Usernames : ChangeField("username", value)
    \/ \E value \in Passwords : ChangeField("password", value)
    \/ \E value \in Passwords : ChangeField("confirmPassword", value)
    \/ (submitHandler /\ BagCardinality(submissions') <= MaxRacing)
    \/ \E sub \in BagToSet(submissions), response \in RaceResponses :
          RegisterResponse(sub, response)
    \/ \E sub \in BagToSet(submissions), response \in RaceResponses :
          LoginResponse(sub, response)
    \/ \E sub \in BagToSet(submissions) : RequestFailure(sub)
    \/ LogoutClick

RaceSpec == InitSignedOut /\ [][RaceNext]_vars

(***************************************************************************)
(* Vocabulary of the claims: the expiry each token string of the model     *)
(* carries, read off its payload (not computed by the code's decoder).     *)
(***************************************************************************)
\* The structured tokens whose payload is an object with a finite numeric exp.
KnownExpiryTokens == {Jwt(SegExp0), Jwt(SegExp1), Jwt(SegExp2), Jwt(SegExp2Url)}

\* Their exp, in seconds.
ExpSeconds(tok) ==
    CASE tok = Jwt(SegExp0) -> 0
      [] tok = Jwt(SegExp1) -> 1
      [] tok = Jwt(SegExp2) -> 2
      [] tok = Jwt(SegExp2Url) -> 2

\* exp * 1000 is later than the instant t.
ExpInFuture(tok, t) == tok \in KnownExpiryTokens /\ ExpSeconds(tok) * 1000 > t
\* exp * 1000 is not later than the instant t.
ExpInPast(tok, t) == tok \in KnownExpiryTokens /\ ExpSeconds(tok) * 1000 <= t

\* The strings with no known expiry: not three segments, an undecodable or
\* unparsable payload, or an absent or non-finite exp.
UnknownExpiryTokens == TokenStrings \ KnownExpiryTokens

\* The last step was setToken(value) with a string value.
SetTokenOf(tok) == last.op = "setToken" /\ last.arg = Str(tok)

(***************************************************************************)
(* C1: setToken(value) of a three-segment token whose payload has a finite *)
(* numeric exp with exp*1000 later than the clock at the call leaves, from *)
(* any prior store state, token = value, isAuthenticated = true and the    *)
(* persisted authToken entry equal to value.                               *)
(***************************************************************************)
C1_FreshTokenAccepted ==
    \A tok \in KnownExpiryTokens :
        (SetTokenOf(tok) /\ ExpInFuture(tok, now)) =>
            /\ token = Str(tok)
            /\ isAuthenticated(token)
            /\ localStorage = Str(tok)

\* A fresh token (one whose payload needs the base64url replacement) was set
\* over another token the store held, and is now held and persisted.
C1_Witness ==
    /\ SetTokenOf(OtherFreshToken)
    /\ last.pre.token = Str(ShortLivedToken)
    /\ last.pre.localStorage = Str(ShortLivedToken)
    /\ token = Str(OtherFreshToken)
    /\ localStorage = Str(OtherFreshToken)

(***************************************************************************)
(* C2: setToken(value) of a structured token whose exp is in the past      *)
(* (exp*1000 not later than the clock) rejects it whatever the store held  *)
(* before: token is null, isAuthenticated is false and no authToken entry  *)
(* remains in localStorage.                                                *)
(***************************************************************************)
C2_ExpiredTokenRejected ==
    \A tok \in KnownExpiryTokens :
        (SetTokenOf(tok) /\ ExpInPast(tok, now)) =>
            /\ token = Null
            /\ ~isAuthenticated(token)
            /\ localStorage = Null

\* An expired token was set while the store held a token that is still valid:
\* the valid token is gone from the store and from localStorage.
C2_Witness ==
    /\ SetTokenOf(ShortLivedToken)
    /\ ExpInPast(ShortLivedToken, now)
    /\ last.pre.token = Str(FreshToken)
    /\ last.pre.localStorage = Str(FreshToken)
    /\ ExpInFuture(FreshToken, now)
    /\ token = Null
    /\ localStorage = Null

(***************************************************************************)
(* C3: every token with no known expiry is rejected by setToken (the store *)
(* is left unauthenticated with no persisted copy), and no such token is   *)
(* ever held by the store.                                                 *)
(***************************************************************************)
C3_UnknownExpiryNeverHeld ==
    /\ \A tok \in UnknownExpiryTokens :
          SetTokenOf(tok) => (~isAuthenticated(token) /\ localStorage = Null)
    /\ token # Null => token[1] \notin UnknownExpiryTokens

(***************************************************************************)
(* C4: in every reachable state of the store, isAuthenticated is true if   *)
(* and only if token is not null.                                          *)
(***************************************************************************)
C4_AuthenticatedIffTokenNotNull ==
    isAuthenticated(token) <=> token # Null

(***************************************************************************)
(* Vocabulary of the claims about the registration protocol                *)
(***************************************************************************)
\* The body of a response is an object whose member `token` is the string x.
HasTokenMember(response, x) ==
    /\ response.data.type = "object"
    /\ response.data.token.type = "string"
    /\ response.data.token.text = x

\* The login requests among the requests of the suspended submissions.
LoginRequestsOf(sub) ==
    {i \in 1..Len(sub.requests) : sub.requests[i].path = "/auth/login"}
PendingLogins(bag) == {sub \in BagToSet(bag) : LoginRequestsOf(sub) # {}}

\* A submission without the flag of its Registration instance.
Closure(sub) == [sub EXCEPT !.mounted = TRUE]

\* This step issues no request to /auth/login: every suspended submission that
\* has issued one had issued it before the step.
NoLoginIssued ==
    \A after \in PendingLogins(submissions') :
        \E before \in PendingLogins(submissions) : Closure(before) = Closure(after)

(***************************************************************************)
(* C5 as stated: when the register response is successful with a body      *)
(* {token: X}, the submission ends with the store holding X, authenticated,*)
(* and no login request is made, for every token string X the backend may  *)
(* return.                                                                 *)
(***************************************************************************)
C5_AnyTokenStored ==
    [][\A sub \in BagToSet(submissions), response \in ApiResponses :
        \A x \in BackendTokens \cup {EmptyString} :
          (response.ok /\ HasTokenMember(response, x)
             /\ RegisterResponse(sub, response))
          => (token' = Str(x) /\ isAuthenticated(token') /\ NoLoginIssued)]_vars

(***************************************************************************)
(* C5 as amended: when the register response is successful with a body     *)
(* whose member token is a non-empty string X, no login request is made    *)
(* and the submission ends; the store then holds X, authenticated and      *)
(* persisted, if X is a structured token whose exp is later than the clock *)
(* at that moment, and is unauthenticated with no persisted token if not.  *)
(***************************************************************************)
C5_TokenStoredIfFresh ==
    [][\A sub \in BagToSet(submissions), response \in ApiResponses :
        \A x \in BackendTokens :
          (response.ok /\ HasTokenMember(response, x)
             /\ RegisterResponse(sub, response))
          => /\ NoLoginIssued
             /\ BagCardinality(submissions') = BagCardinality(submissions) - 1
             /\ IF ExpInFuture(x, now)
                THEN /\ token' = Str(x)
                     /\ isAuthenticated(token')
                     /\ localStorage' = Str(x)
                ELSE /\ token' = Null
                     /\ ~isAuthenticated(token')
                     /\ localStorage' = Null]_vars

\* A submission has just ended by storing the token of its response: the store
\* holds it, the success message of the registration is shown, and nothing is
\* suspended.
C5_Witness ==
    /\ last.op = "setToken"
    /\ last.arg = Str(FreshToken)
    /\ last.pre.token = Null
    /\ token = Str(FreshToken)
    /\ localStorage = Str(FreshToken)
    /\ appSnackBar = SnackBar(TRUE, Notice(RegisteredAs("tradesperson")), "success")
    /\ submissions = EmptyBag

(***************************************************************************)
(* C6: a successful register response that yields no token makes its       *)
(* submission issue exactly one login request, with the username and       *)
(* password of its register request, whatever the form holds by then; no   *)
(* login request is issued in any other step, and no submission ever has   *)
(* more than one.                                                          *)
(***************************************************************************)
\* The requests of a submission: its register request, then at most one login
\* request, which carries the username and password of the register request.
RequestsInOrder(sub) ==
    /\ Len(sub.requests) \in {1, 2}
    /\ sub.requests[1].path = "/auth/register"
    /\ Len(sub.requests) = 2 =>
          /\ sub.requests[2].path = "/auth/login"
          /\ sub.requests[2].username = sub.requests[1].username
          /\ sub.requests[2].password = sub.requests[1].password
    /\ (sub.pc = "login") <=> (Len(sub.requests) = 2)

C6_OneLoginSameCredentials ==
    [][/\ \A sub \in BagToSet(submissions), response \in ApiResponses :
            (response.ok /\ ~JTruthy(extractToken(response.data))
               /\ RegisterResponse(sub, response))
            => \E after \in BagToSet(submissions') :
                  /\ after.pc = "login"
                  /\ Len(after.requests) = Len(sub.requests) + 1
                  /\ SubSeq(after.requests, 1, Len(sub.requests)) = sub.requests
                  /\ BagCardinality(submissions') = BagCardinality(submissions)
       /\ ~NoLoginIssued =>
            \E sub \in BagToSet(submissions), response \in ApiResponses :
                /\ response.ok
                /\ ~JTruthy(extractToken(response.data))
                /\ RegisterResponse(sub, response)
       /\ \A after \in BagToSet(submissions') : RequestsInOrder(after)]_vars

\* A submission is suspended at its login request, which carries the
\* credentials of its register request, while the form has been cleared by the
\* choice of the other role.
C6_Witness ==
    \E sub \in BagToSet(submissions) :
        /\ sub.pc = "login"
        /\ sub.requests = <<RegisterRequest("alice", "pw", "customer"),
                            LoginRequest("alice", "pw")>>
        /\ registrationType = Str("tradesperson")
        /\ registrationData = EmptyForm

(***************************************************************************)
(* C7: Submit validates in the order: all three fields non-empty, password *)
(* equals confirmation, a role is selected; at the first failing check it  *)
(* shows that check's message at error severity, issues no request and     *)
(* leaves the store and the form unchanged.                                *)
(***************************************************************************)
\* The checks that fail on a form, in the order of the claim.
FailingChecks(data, regType) ==
    SelectSeq(<<FillInAllFields, PasswordsDoNotMatch, SelectRegistrationType>>,
              LAMBDA m :
                \/ m = FillInAllFields /\ "" \in {data.username, data.password,
                                                  data.confirmPassword}
                \/ m = PasswordsDoNotMatch /\ data.password # data.confirmPassword
                \/ m = SelectRegistrationType /\ regType = Null)

Forms == [username : Usernames, password : Passwords, confirmPassword : Confirmations]

C7_FirstFailingCheckShown ==
    [][/\ (submitHandler /\ FailingChecks(registrationData, registrationType) # <<>>)
          => /\ regSnackBar' =
                   SnackBar(TRUE,
                            Notice(FailingChecks(registrationData, registrationType)[1]),
                            "error")
             /\ UNCHANGED <<submissions, token, localStorage, registrationData,
                            registrationType>>
       /\ \A data \in Forms, regType \in {Null} \cup {Str(r) : r \in Roles} :
             validateRegistrationData(data, regType) =
                 IF FailingChecks(data, regType) = <<>> THEN Null
                 ELSE Str(FailingChecks(data, regType)[1])]_vars

\* Submit was clicked on a form with an empty username and a confirmation that
\* differs from the password: only the first check's message is shown, and no
\* request is in flight.
C7_Witness ==
    /\ registrationData = [username |-> "", password |-> "pw", confirmPassword |-> "px"]
    /\ Len(FailingChecks(registrationData, registrationType)) = 2
    /\ regSnackBar = SnackBar(TRUE, Notice(FillInAllFields), "error")
    /\ submissions = EmptyBag

(***************************************************************************)
(* C8: a 401 response to the protected-endpoint call clears the token      *)
(* (store unauthenticated, persisted authToken removed) and reports a      *)
(* session-expired notice to the user; any other non-successful status     *)
(* leaves the token in place and reports 'Error <status>: <body>'.         *)
(***************************************************************************)
C8_UnauthorizedLogsOutAndReports ==
    [][\A call \in BagToSet(protectedCalls), status \in ProtectedStatuses,
          bodyText \in ProtectedBodies :
          (status \notin OkStatuses /\ ProtectedResponse(call, status, bodyText))
          => IF status = 401
             THEN /\ token' = Null
                  /\ ~isAuthenticated(token')
                  /\ localStorage' = Null
                  /\ VisibleProtectedResponse(token', protectedResponse')
                        = SessionExpired
             ELSE /\ token' = token
                  /\ localStorage' = localStorage
                  /\ VisibleProtectedResponse(token', protectedResponse')
                        = ProtectedMessage("Error", status, bodyText)]_vars

(***************************************************************************)
(* C9: expiry is checked only when a token is set or rehydrated: the       *)
(* passage of time changes neither token nor the persisted entry, and the  *)
(* store's token changes only in a step that calls setToken or logout (a   *)
(* 401 response included) or that reloads the page.                        *)
(***************************************************************************)
C9_NoExpiryTimer ==
    [][/\ now' # now => (token' = token /\ localStorage' = localStorage)
       /\ token' # token => last'.op \in {"setToken", "logout", "init"}]_vars

\* The store holds, authenticated, a token whose exp the clock has passed, and
\* the last step (the clock's) called nothing.
C9_Witness ==
    /\ token = Str(ShortLivedToken)
    /\ isAuthenticated(token)
    /\ ExpInPast(ShortLivedToken, now)
    /\ last.op = "none"

(***************************************************************************)
(* C10 as stated: at startup the store's token is the persisted authToken  *)
(* value if there is one and it is not expired at that moment; if the      *)
(* value is absent the store starts unauthenticated; if it is expired or   *)
(* has no known expiry the store starts unauthenticated and the entry is   *)
(* removed.                                                                *)
(***************************************************************************)
C10_RehydrateOrRemove ==
    last.op = "init" =>
        IF last.arg = Null
        THEN token = Null /\ ~isAuthenticated(token)
        ELSE IF ExpInFuture(last.arg[1], now)
        THEN token = last.arg /\ isAuthenticated(token) /\ localStorage = last.arg
        ELSE token = Null /\ ~isAuthenticated(token) /\ localStorage = Null

(***************************************************************************)
(* C10 as amended: at startup the store's token is the persisted authToken *)
(* value if it is a non-empty string that is not expired at that moment,   *)
(* and the entry stays; if the entry is absent or the empty string the     *)
(* store starts unauthenticated and the entry is left as it is; if it is a *)
(* non-empty string that is expired or has no known expiry the store       *)
(* starts unauthenticated and the entry is removed.                        *)
(***************************************************************************)
C10_RehydrateOrRemoveNonEmpty ==
    last.op = "init" =>
        IF last.arg = Null \/ last.arg = Str(EmptyString)
        THEN token = Null /\ ~isAuthenticated(token) /\ localStorage = last.arg
        ELSE IF ExpInFuture(last.arg[1], now)
        THEN token = last.arg /\ isAuthenticated(token) /\ localStorage = last.arg
        ELSE token = Null /\ ~isAuthenticated(token) /\ localStorage = Null

\* The page was reloaded after the clock passed the exp of the token that an
\* earlier setToken had accepted and persisted: the store starts
\* unauthenticated and the entry is gone.
C10_Witness ==
    /\ last.op = "init"
    /\ last.arg = Str(ShortLivedToken)
    /\ last.pre.token = Str(ShortLivedToken)
    /\ ExpInPast(ShortLivedToken, now)
    /\ token = Null
    /\ localStorage = Null

(***************************************************************************)
(* C13: selecting a role different from the selected one (the first        *)
(* selection from none included) resets username, password and             *)
(* confirmPassword to empty and sets the role; selecting the role that is  *)
(* already selected leaves the three fields and the role unchanged.        *)
(***************************************************************************)
C13_RoleSwitchResetsForm ==
    [][\A type \in Roles :
          onClickHandler(type) =>
             IF registrationType # Str(type)
             THEN registrationData' = EmptyForm /\ registrationType' = Str(type)
             ELSE registrationData' = registrationData
                  /\ registrationType' = registrationType]_vars

\* The role was switched after a customer form had been filled and submitted:
\* the submission of the customer form is still suspended, the other role is
\* selected and the three fields are empty.
C13_Witness ==
    /\ registrationType = Str("tradesperson")
    /\ registrationData = EmptyForm
    /\ \E sub \in BagToSet(submissions) :
          sub.role = "customer" /\ sub.username # "" /\ sub.password # ""

(***************************************************************************)
(* C14: logout() is equivalent to setToken(null): from every store state   *)
(* both leave token null, isAuthenticated false and no persisted authToken *)
(* entry; and logout is idempotent.                                        *)
(***************************************************************************)
C14_LogoutIsSetTokenNull ==
    /\ logout(now) = setToken(Null, now)
    /\ logout(now) = Store(Null, Null)
    /\ last.op = "logout" =>
          /\ token = Null
          /\ ~isAuthenticated(token)
          /\ localStorage = Null
          /\ logout(now) = Store(token, localStorage)

\* logout() was called on a store that held and persisted a token.
C14_Witness ==
    /\ last.op = "logout"
    /\ isAuthenticated(last.pre.token)
    /\ last.pre.localStorage = last.pre.token
    /\ token = Null
    /\ localStorage = Null

(***************************************************************************)
(* C18 as stated: durable storage and in-memory state agree in every       *)
(* reachable state of the store: the persisted authToken entry is present  *)
(* exactly when the store's token is a non-empty string, and then equals   *)
(* it; and every token held by the store or persisted passed the expiry    *)
(* check (a known exp later than the clock) when it was accepted or        *)
(* rehydrated.                                                             *)
(***************************************************************************)
C18_StorageAgreesWithState ==
    /\ localStorage # Null <=> Truthy(token)
    /\ Truthy(token) => localStorage = token
    /\ Truthy(token) => token[1] \in KnownExpiryTokens
    /\ localStorage # Null => localStorage[1] \in KnownExpiryTokens
    /\ (last.op \in {"init", "setToken"} /\ Truthy(token)) =>
          ExpInFuture(token[1], now)

(***************************************************************************)
(* C18 as amended: whenever the store's token is a non-empty string the    *)
(* persisted authToken entry equals it; whenever it is not, the entry is   *)
(* absent or is an empty string that was found at startup, which stays     *)
(* until the first setToken or logout call; and every non-empty token held *)
(* or persisted passed the expiry check (a known exp later than the clock) *)
(* when it was accepted or rehydrated.                                     *)
(***************************************************************************)
C18_StorageAgreesUnlessEmptyEntry ==
    /\ Truthy(token) => localStorage = token
    /\ ~Truthy(token) => localStorage \in {Null, Str(EmptyString)}
    /\ last.op \in {"setToken", "logout"} => localStorage # Str(EmptyString)
    /\ Truthy(token) => token[1] \in KnownExpiryTokens
    /\ (last.op \in {"init", "setToken"} /\ Truthy(token)) =>
          ExpInFuture(token[1], now)

\* setToken has just accepted a token on a store that had started with an
\* empty-string entry: the token is held and the entry equals it.
C18_Witness ==
    /\ last.op = "setToken"
    /\ last.pre.localStorage = Str(EmptyString)
    /\ Truthy(token)
    /\ localStorage = token
    /\ ExpInFuture(token[1], now)

(***************************************************************************)
(* Vocabulary of the claims about error responses                          *)
(***************************************************************************)
\* The message of an error response: the body if it is a non-empty string,
\* else its message member if the body is an object with a string message,
\* else the fallback.
MessageOf(data, fallback) ==
    CASE data.type = "string" /\ data.text # "" -> data.text
      [] data.type = "object" /\ data.message.type = "string" -> data.message.text
      [] OTHER -> fallback

\* The error notice `<message> (status <code>)` of a response.
ErrorNoticeOf(response, fallback) ==
    SnackBar(TRUE, StatusNotice(MessageOf(response.data, fallback), response.status),
             "error")

\* The submission sub ends in this step, and the store is left as it is.
EndsWithoutStoreChange(sub) ==
    /\ submissions' = submissions (-) SetToBag({sub})
    /\ NoLoginIssued
    /\ token' = token
    /\ localStorage' = localStorage

C12_NoSilentEnding ==
    [][BagCardinality(submissions') < BagCardinality(submissions) =>
          LET authenticated == /\ isAuthenticated(token')
                               /\ last'.op = "setToken"
                               /\ token' = last'.arg
              notified == /\ ~isAuthenticated(token')
                          /\ regSnackBar'.show
                          /\ regSnackBar'.severity = "error"
          IN  authenticated \/ notified]_vars

(***************************************************************************)
(* C15: the pending success message is one-shot and tied to a successful   *)
(* authentication: whenever a submission records it, the view becomes      *)
(* authenticated, the message is shown at success severity and removed     *)
(* from session storage; it is never left in session storage after a step. *)
(***************************************************************************)
C15_SuccessMessageOneShot ==
    [][/\ sessionStorage' = Null
       /\ \A sub \in BagToSet(submissions), response \in ApiResponses :
             ((RegisterResponse(sub, response) \/ LoginResponse(sub, response))
                 /\ last'.op = "setToken")
             => /\ isAuthenticated(token')
                /\ appSnackBar' =
                      SnackBar(TRUE, Notice(RegisteredAs(sub.role)), "success")]_vars

(***************************************************************************)
(* Vocabulary of the claim about the token fields                          *)
(***************************************************************************)
\* The member holds a non-empty token string.
HoldsToken(member) == member.type = "string" /\ member.text # ""

\* The first of token, accessToken, jwt that holds a non-empty token string.
FirstTokenOf(data) ==
    CASE HoldsToken(data.token) -> data.token.text
      [] HoldsToken(data.accessToken) -> data.accessToken.text
      [] OTHER -> data.jwt.text

\* The bodies in which one of the three fields holds a non-empty token string.
BodiesWithToken ==
    {data \in TokenBodies :
        HoldsToken(data.token) \/ HoldsToken(data.accessToken) \/ HoldsToken(data.jwt)}

(***************************************************************************)
(* C17: the token fields of a successful response are consulted in the     *)
(* order token, accessToken, jwt and the first that yields a token is      *)
(* stored: if any of the three holds a non-empty token string the          *)
(* submission hands a token from the response to the store and does not    *)
(* fall through to the login call (register response) or to the 'no token  *)
(* was returned' error (login response), also when an earlier field in the *)
(* order is present but empty.                                             *)
(***************************************************************************)
C17_FirstTokenFieldStored ==
    [][\A sub \in BagToSet(submissions), response \in ApiResponses :
          (response.ok /\ response.data \in BodiesWithToken) =>
             /\ RegisterResponse(sub, response) =>
                   /\ last'.op = "setToken"
                   /\ last'.arg = Str(FirstTokenOf(response.data))
                   /\ NoLoginIssued
             /\ LoginResponse(sub, response) =>
                   /\ last'.op = "setToken"
                   /\ last'.arg = Str(FirstTokenOf(response.data))
                   /\ regSnackBar' = regSnackBar]_vars

(***************************************************************************)
(* Vocabulary of the claim about racing submissions                        *)
(***************************************************************************)
\* The token string a successful response yields, when it yields one.
YieldsToken(response) == response.ok /\ JTruthy(extractToken(response.data))

\* This step hands the token of the response to the store, which keeps it or
\* drops it by its expiry.
AppliesToken(response) ==
    LET tok == extractToken(response.data).text
    IN  /\ last'.op = "setToken"
        /\ last'.arg = Str(tok)
        /\ token' = IF ExpInFuture(tok, now) THEN Str(tok) ELSE Null
        /\ localStorage' = token'

\* The error notice with which a response ends a submission at the await pc.
OutcomeNotice(pc, response) ==
    IF ~response.ok
    THEN ErrorNoticeOf(response, IF pc = "register" THEN RegistrationFailed
                                 ELSE LoginFailed)
    ELSE SnackBar(TRUE, Notice(NoTokenReturned), "error")

\* A click on Submit with a valid form starts one more submission, whatever is
\* outstanding.
StartsAnotherSubmission ==
    (submitHandler /\ validateRegistrationData(registrationData, registrationType) = Null)
    => BagCardinality(submissions') = BagCardinality(submissions) + 1

C19_UnauthorizedClearsCurrentToken ==
    [][\A call \in BagToSet(protectedCalls), bodyText \in ProtectedBodies :
          ProtectedResponse(call, UnauthorizedStatus, bodyText) =>
             /\ token' = Null
             /\ ~isAuthenticated(token')
             /\ localStorage' = Null]_vars

\* A 401 to a request sent under one token has just cleared another token,
\* which the store held and had persisted.
C19_Witness ==
    /\ last.op = "logout"
    /\ last.arg # Null
    /\ isAuthenticated(last.pre.token)
    /\ last.pre.token # last.arg
    /\ last.pre.localStorage = last.pre.token
    /\ token = Null
    /\ localStorage = Null

====
